---------------------------- MODULE Spec2Model ----------------------------
(***************************************************************************)
(* A model of opensky2qif.py: the conversion of an OpenSky payment-details *)
(* CSV export into a QIF file.                                             *)
(*                                                                         *)
(* Representation.                                                         *)
(*  - A Python string whose contents matter (order identifiers, SKUs,      *)
(*    dates, memos, formatted amounts) is a sequence of one-character      *)
(*    strings, compared as Python compares strings: lexicographically by   *)
(*    character code.                                                      *)
(*  - A monetary amount is an integer number of mills (thousandths of the  *)
(*    currency unit, 1000 = 1.00), so that rounding to two decimals and    *)
(*    formatting with two decimals are real conversions.  The binary       *)
(*    rounding error of float addition is not modelled.                    *)
(*  - A CSV cell holding something float() rejects (a blank cell) is the   *)
(*    value Blank.                                                         *)
(***************************************************************************)
EXTENDS Integers, Sequences, FiniteSets, TLC

VARIABLES
    pc,           \* position of the run in AppUI.convert
    header,       \* the column names of the CSV file's header line
    rows,         \* the rows csv.DictReader has yielded so far
    orders,       \* read_opensky's orders dict: order id -> Order
    payments,     \* read_opensky's payments dict: payment date -> Payment
    validated,    \* the order ids Order.validate was called for, in call order
    warnings,     \* the messages passed to app_ui.warning, in order
    fatal_msg,    \* the message passed to app_ui.fatal, or NoMsg
    exit_status,  \* the status given to sys.exit, or Running
    csv_opens,    \* number of times open() was called for the CSV file
    qif_opens,    \* number of times open() was called for the QIF file
    qif_header,   \* TRUE once write_qif_header has written the account block
    out,          \* the transactions written to the QIF file, in order
    arg,          \* argument of the pure function under check
    res           \* results of the successive applications to arg

vars == <<pc, header, rows, orders, payments, validated, warnings, fatal_msg,
          exit_status, csv_opens, qif_opens, qif_header, out, arg, res>>

pipeVars == <<pc, header, rows, orders, payments, validated, warnings,
              fatal_msg, exit_status, csv_opens, qif_opens, qif_header, out>>

-----------------------------------------------------------------------------
(* Bounds of the model.                                                    *)

\* rows read from one CSV file
MaxRows == 2
\* required columns a header may lack
MaxMissing == 2
\* length of the arbitrary date strings given to normalize_date
MaxDateLen == 4
\* length of the value lists given to list_to_string
MaxValues == 5

-----------------------------------------------------------------------------
(* Strings.                                                                *)

\* The characters used, in ascending character-code order.
Alphabet ==
    << " ", ",", "-", "/", "0", "1", "2", "3", "4", "5", "6", "7", "8", "9",
       "=", "A", "B", "C", "D", "I", "K", "O", "S", "U",
       "d", "e", "f", "m", "o", "r", "s", "t" >>

Ord(c) == CHOOSE i \in 1..Len(Alphabet) : Alphabet[i] = c

Min2(a, b) == IF a < b THEN a ELSE b

\* Python's a < b on two strings.
StrLess(a, b) ==
    \E i \in 1..(Min2(Len(a), Len(b)) + 1) :
        /\ \A j \in 1..(i - 1) : a[j] = b[j]
        /\ \/ i > Len(a) /\ i <= Len(b)
           \/ i <= Len(a) /\ i <= Len(b) /\ Ord(a[i]) < Ord(b[i])

RECURSIVE Insert(_, _)
Insert(v, s) ==
    IF s = <<>> THEN <<v>>
    ELSE IF StrLess(v, s[1]) THEN <<v>> \o s
    ELSE <<s[1]>> \o Insert(v, Tail(s))

\* Python's sorted() on a list of strings.
RECURSIVE Sorted(_)
Sorted(s) ==
    IF s = <<>> THEN <<>>
    ELSE Insert(s[Len(s)], Sorted(SubSeq(s, 1, Len(s) - 1)))

\* The keys of a dict as a list, in some iteration order.
RECURSIVE KeyList(_)
KeyList(S) ==
    IF S = {} THEN <<>>
    ELSE LET k == CHOOSE x \in S : TRUE IN <<k>> \o KeyList(S \ {k})

\* "for key in d" for "for key in sorted(d)".
UnsortedKeys(d) == KeyList(DOMAIN d)

\* Python's sorted() on a dict: its keys in ascending order.
SortedKeys(d) == Sorted(KeyList(DOMAIN d))

\* Python's s.split(sep) for a one-character separator.
RECURSIVE Split(_, _)
Split(s, sep) ==
    IF \A i \in 1..Len(s) : s[i] # sep THEN <<s>>
    ELSE LET i == CHOOSE n \in 1..Len(s) :
                      s[n] = sep /\ \A m \in 1..(n - 1) : s[m] # sep
         IN <<SubSeq(s, 1, i - 1)>> \o Split(SubSeq(s, i + 1, Len(s)), sep)

\* Python's sep.join(list).
RECURSIVE Join(_, _)
Join(sep, list) ==
    IF list = <<>> THEN <<>>
    ELSE IF Len(list) = 1 THEN list[1]
    ELSE list[1] \o sep \o Join(sep, Tail(list))

Digit(n) == Alphabet[Ord("0") + n]

\* Python's str(n) / "{}".format(n) for an integer n >= 0.
RECURSIVE NatToStr(_)
NatToStr(n) ==
    IF n < 10 THEN <<Digit(n)>> ELSE NatToStr(n \div 10) \o <<Digit(n % 10)>>

Abs(x) == IF x < 0 THEN -x ELSE x

-----------------------------------------------------------------------------
(* Numbers.                                                                *)

\* A CSV cell of a numeric column: text that float() accepts, with its value
\* in mills, or text that float() rejects (a blank cell).
Num(v) == [isfloat |-> TRUE, value |-> v]
Blank == [isfloat |-> FALSE, value |-> 0]

\* get_float: the cell as a number, 0.0 when float() raises ValueError.
GetFloat(fields, key) ==
    IF fields[key].isfloat THEN fields[key].value ELSE 0

\* round(x, 2) of Python 2: to the nearest hundredth, a tie away from zero.
Round2(x) ==
    IF x < 0 THEN -(((-x + 5) \div 10) * 10) ELSE ((x + 5) \div 10) * 10

\* "{:.2f}".format(x): sign, integer part, ".", two decimals; the nearest
\* hundredth with a tie to the even one, and a negative x keeps its sign even
\* when it rounds to zero.
Fmt2(x) ==
    LET a == Abs(x)
        q == a \div 10
        r == a % 10
        c == IF r > 5 \/ (r = 5 /\ q % 2 = 1) THEN q + 1 ELSE q
    IN (IF x < 0 THEN <<"-">> ELSE <<>>)
       \o NatToStr(c \div 100) \o <<".">>
       \o <<Digit((c % 100) \div 10), Digit(c % 10)>>


-----------------------------------------------------------------------------
(* Order and Payment.                                                      *)

\* Order.__init__
OrderInit(order_date, sku, m) ==
    [ order_date         |-> order_date,
      skus               |-> <<sku>>,
      item_price         |-> m.item_price,
      shipping           |-> m.shipping,
      opensky_credits    |-> m.opensky_credits,
      sales_tax          |-> m.sales_tax,
      restocking_fee     |-> m.restocking_fee,
      cc_processing      |-> m.cc_processing,
      opensky_commission |-> m.opensky_commission,
      total_payment      |-> m.total_payment ]

InSeq(x, s) == \E i \in 1..Len(s) : s[i] = x

\* Order.update with "self.shipping = shipping" for "self.shipping += shipping".
OrderUpdateOverwrites(o, sku, m) ==
    [ order_date         |-> o.order_date,
      skus               |-> IF InSeq(sku, o.skus) THEN o.skus
                             ELSE Append(o.skus, sku),
      item_price         |-> o.item_price + m.item_price,
      shipping           |-> m.shipping,
      opensky_credits    |-> o.opensky_credits + m.opensky_credits,
      sales_tax          |-> o.sales_tax + m.sales_tax,
      restocking_fee     |-> o.restocking_fee + m.restocking_fee,
      cc_processing      |-> o.cc_processing + m.cc_processing,
      opensky_commission |-> o.opensky_commission + m.opensky_commission,
      total_payment      |-> o.total_payment + m.total_payment ]

\* Order.update
OrderUpdate(o, sku, m) ==
    [ order_date         |-> o.order_date,
      skus               |-> IF InSeq(sku, o.skus) THEN o.skus
                             ELSE Append(o.skus, sku),
      item_price         |-> o.item_price + m.item_price,
      shipping           |-> o.shipping + m.shipping,
      opensky_credits    |-> o.opensky_credits + m.opensky_credits,
      sales_tax          |-> o.sales_tax + m.sales_tax,
      restocking_fee     |-> o.restocking_fee + m.restocking_fee,
      cc_processing      |-> o.cc_processing + m.cc_processing,
      opensky_commission |-> o.opensky_commission + m.opensky_commission,
      total_payment      |-> o.total_payment + m.total_payment ]

\* The item price Order.validate computes from the other fields.
CalculatedPrice(o) ==
    Round2(o.total_payment
           - (o.shipping + o.opensky_credits + o.sales_tax + o.restocking_fee
              + o.cc_processing + o.opensky_commission))

\* Order.validate comparing the stored price unrounded.
ValidateFailsUnrounded(o) == o.item_price # CalculatedPrice(o)

\* Order.validate: whether the warning is emitted and the price overwritten.
ValidateFails(o) == Round2(o.item_price) # CalculatedPrice(o)

\* Order.validate without "self.item_price = item_price".
ValidateOrderWarnsOnly(o) == o

\* Order.validate: the order it leaves.
ValidateOrder(o) ==
    IF ValidateFails(o) THEN [o EXCEPT !.item_price = CalculatedPrice(o)]
    ELSE o

\* Order.validate: the text of its warning.
ValidateWarning(o, order_id) ==
    [ order_id   |-> order_id,
      item_price |-> Fmt2(o.item_price),
      calculated |-> Fmt2(CalculatedPrice(o)) ]

\* Payment.__init__ without "self.total_payment = total_payment".
PaymentInitNoTotal(order_id, total_payment) ==
    [ order_ids |-> <<order_id>>, total_payment |-> 0 ]

\* Payment.__init__
PaymentInit(order_id, total_payment) ==
    [ order_ids |-> <<order_id>>, total_payment |-> total_payment ]

\* Payment.update without "if order_id not in self.order_ids".
PaymentUpdateAppends(p, order_id, total_payment) ==
    [ order_ids     |-> Append(p.order_ids, order_id),
      total_payment |-> p.total_payment + total_payment ]

\* Payment.update
PaymentUpdate(p, order_id, total_payment) ==
    [ order_ids     |-> IF InSeq(order_id, p.order_ids) THEN p.order_ids
                        ELSE Append(p.order_ids, order_id),
      total_payment |-> p.total_payment + total_payment ]

-----------------------------------------------------------------------------
(* normalize_date                                                          *)

\* The IndexError "{0[2]}".format raises when the split has under 3 parts.
IndexError == <<"IndexError">>

HasSlash(date) == \E i \in 1..Len(date) : date[i] = "/"

\* normalize_date with the day and the month exchanged.
NormalizeDateDayFirst(date) ==
    IF HasSlash(date)
    THEN LET p == Split(date, "/")
         IN IF Len(p) < 3 THEN IndexError
            ELSE p[3] \o <<"-">> \o p[2] \o <<"-">> \o p[1]
    ELSE date

NormalizeDate(date) ==
    IF HasSlash(date)
    THEN LET p == Split(date, "/")
         IN IF Len(p) < 3 THEN IndexError
            ELSE p[3] \o <<"-">> \o p[1] \o <<"-">> \o p[2]
    ELSE date

-----------------------------------------------------------------------------
(* list_to_string and the records of the QIF file.                         *)

\* list_to_string without "values = sorted(values)".
ListToStringUnsorted(item_name, values) ==
    LET v == values
    IN IF Len(v) < 5
       THEN item_name \o (IF Len(v) > 1 THEN <<"s">> ELSE <<>>) \o <<"=">>
            \o Join(<<",">>, v)
       ELSE NatToStr(Len(v)) \o <<" ">> \o item_name
            \o <<"s", " ", "f", "r", "o", "m", " ">> \o v[1]
            \o <<" ", "t", "o", " ">> \o v[Len(v)]

\* list_to_string
ListToString(item_name, values) ==
    LET v == Sorted(values)
    IN IF Len(v) < 5
       THEN item_name \o (IF Len(v) > 1 THEN <<"s">> ELSE <<>>) \o <<"=">>
            \o Join(<<",">>, v)
       ELSE NatToStr(Len(v)) \o <<" ">> \o item_name
            \o <<"s", " ", "f", "r", "o", "m", " ">> \o v[1]
            \o <<" ", "t", "o", " ">> \o v[Len(v)]

\* The account names: the defaults of the --acct-... arguments.
Acct ==
    [ cc_processing |-> "Expenses:CC Processing Fees",
      credits       |-> "Expenses:OpenSky Credits",
      commission    |-> "Expenses:OpenSky Commissions",
      deposit       |-> "Assets:Checking",
      opensky       |-> "Assets:OpenSky",
      shipping      |-> "Expenses:Postage and Delivery",
      restocking    |-> "Expenses:Restocking Fees",
      sales         |-> "Income:Sales - OpenSky",
      sales_tax     |-> "Expenses:Sales Tax" ]

\* memo=None
NoMemo == <<>>

\* write_split without "if amount != 0.0".
WriteSplitAlways(amount, account, memo) ==
    << [S |-> account, E |-> memo, amount |-> amount, text |-> Fmt2(amount)] >>

\* write_split: the split written for an amount, as a list of zero or one
\* splits.  S is the split's S line, E its E line (none for an empty memo),
\* text its $ line; amount is the number that was formatted.
WriteSplit(amount, account, memo) ==
    IF amount # 0
    THEN << [S |-> account, E |-> memo, amount |-> amount,
             text |-> Fmt2(amount)] >>
    ELSE <<>>

SKU == <<"S", "K", "U">>
OrderID == <<"O", "r", "d", "e", "r", " ", "I", "D">>

\* write_qif_orders: the transaction written for one order.
OrderTransaction(order_id, order) ==
    [ kind   |-> "order",
      key    |-> order_id,
      D      |-> order.order_date,
      P      |-> <<"OpenSky order ", order_id>>,
      L      |-> Acct.opensky,
      T      |-> Fmt2(order.total_payment),
      splits |-> WriteSplit(order.opensky_commission, Acct.commission, NoMemo)
                 \o WriteSplit(order.cc_processing, Acct.cc_processing, NoMemo)
                 \o WriteSplit(order.restocking_fee, Acct.restocking, NoMemo)
                 \o WriteSplit(order.sales_tax, Acct.sales_tax, NoMemo)
                 \o WriteSplit(order.opensky_credits, Acct.credits, NoMemo)
                 \o WriteSplit(order.shipping, Acct.shipping, NoMemo)
                 \o WriteSplit(order.item_price, Acct.sales,
                               ListToString(SKU, order.skus)) ]

\* write_qif_payments: the transaction written for one payment.
PaymentTransaction(payment_date, payment) ==
    [ kind   |-> "payment",
      key    |-> payment_date,
      D      |-> payment_date,
      P      |-> <<"OpenSky payment">>,
      L      |-> Acct.opensky,
      T      |-> Fmt2(-payment.total_payment),
      splits |-> WriteSplit(payment.total_payment, Acct.deposit,
                            ListToString(OrderID, payment.order_ids)) ]

-----------------------------------------------------------------------------
(* The CSV file.                                                           *)

\* The columns read_opensky reads, in the order it reads them from a row.
RequiredColumns ==
    << "Order ID", "SKU", "Item price", "Shipping price", "Credits",
       "Sales tax", "Restocking fee", "Credit card processing",
       "OpenSky commission", "Total payment", "Original order date",
       "Payment date" >>

ColumnSet == {RequiredColumns[i] : i \in 1..Len(RequiredColumns)}

\* The headers of the files: complete, or lacking up to MaxMissing columns.
Headers ==
    {ColumnSet \ S : S \in {T \in SUBSET ColumnSet : Cardinality(T) <= MaxMissing}}

OrderIdValues == { <<"1", "0">>, <<"9">> }

OrderDateValues == { <<"0", "7", "/", "0", "4", "/", "2", "0", "1", "5">> }

PaymentDateValues ==
    { <<"2", "0", "1", "5", "-", "0", "7", "-", "2", "5">>,
      <<"0", "7", "/", "2", "5", "/", "2", "0", "1", "5">>,
      <<"0", "7", "/", "0", "4", "/", "2", "0", "1", "5">> }

\* The line items of the files: the SKU and the numeric cells of a row (item
\* price, shipping price, credits, sales tax, restocking fee, credit card
\* processing, commission, total payment).
LineItemValues ==
    { \* a line item that reconciles, with a credit
      << <<"A">>, << Num(10000), Num(2000), Num(2000), Num(500), Blank,
                     Num(-300), Num(-1000), Num(9200) >> >>,
      \* its refund
      << <<"A">>, << Num(-10000), Num(-2000), Num(-2000), Num(-500), Num(0),
                     Num(300), Num(1000), Num(-9200) >> >>,
      \* the same line item for another SKU
      << <<"B">>, << Num(10000), Num(2000), Num(2000), Num(500), Blank,
                     Num(-300), Num(-1000), Num(9200) >> >>,
      \* a line item whose total does not reconcile
      << <<"B">>, << Num(5000), Blank, Blank, Blank, Blank, Blank, Num(-500),
                     Num(4000) >> >>,
      \* a line item with amounts that are not whole cents
      << <<"C">>, << Num(1004), Num(8), Blank, Blank, Blank, Blank, Blank,
                     Num(1004) >> >> }

\* One data row of a file with every column.
FullRow(order_id, sku, a, order_date, payment_date) ==
    ("Order ID" :> order_id) @@ ("SKU" :> sku)
    @@ ("Item price" :> a[1]) @@ ("Shipping price" :> a[2])
    @@ ("Credits" :> a[3]) @@ ("Sales tax" :> a[4])
    @@ ("Restocking fee" :> a[5]) @@ ("Credit card processing" :> a[6])
    @@ ("OpenSky commission" :> a[7]) @@ ("Total payment" :> a[8])
    @@ ("Original order date" :> order_date)
    @@ ("Payment date" :> payment_date)

\* csv.DictReader: the row as a dict keyed by the header's columns.
DictRow(hdr, full) == [c \in hdr |-> full[c]]

\* The columns read in another order, the two dates first.
MissingColumnDatesFirst(fields) ==
    IF "Original order date" \notin DOMAIN fields THEN "Original order date"
    ELSE IF "Payment date" \notin DOMAIN fields THEN "Payment date"
    ELSE LET i == CHOOSE n \in 1..Len(RequiredColumns) :
                      /\ RequiredColumns[n] \notin DOMAIN fields
                      /\ \A m \in 1..(n - 1) :
                             RequiredColumns[m] \in DOMAIN fields
         IN RequiredColumns[i]

\* The key of the KeyError: the first column read that the row lacks.
MissingColumn(fields) ==
    LET i == CHOOSE n \in 1..Len(RequiredColumns) :
                 /\ RequiredColumns[n] \notin DOMAIN fields
                 /\ \A m \in 1..(n - 1) : RequiredColumns[m] \in DOMAIN fields
    IN RequiredColumns[i]

\* The values read_opensky takes from a row.
RowAmounts(fields) ==
    [ item_price         |-> GetFloat(fields, "Item price"),
      shipping           |-> GetFloat(fields, "Shipping price"),
      opensky_credits    |-> -GetFloat(fields, "Credits"),
      sales_tax          |-> GetFloat(fields, "Sales tax"),
      restocking_fee     |-> GetFloat(fields, "Restocking fee"),
      cc_processing      |-> GetFloat(fields, "Credit card processing"),
      opensky_commission |-> GetFloat(fields, "OpenSky commission"),
      total_payment      |-> GetFloat(fields, "Total payment") ]

\* "Update orders."
MergeOrder(ords, fields) ==
    LET order_id == fields["Order ID"]
        order_date == NormalizeDate(fields["Original order date"])
        m == RowAmounts(fields)
    IN IF order_id \in DOMAIN ords
       THEN [ords EXCEPT ![order_id] = OrderUpdate(@, fields["SKU"], m)]
       ELSE ords @@ (order_id :> OrderInit(order_date, fields["SKU"], m))

\* "Update payments."
MergePayment(pays, fields) ==
    LET order_id == fields["Order ID"]
        payment_date == NormalizeDate(fields["Payment date"])
        total_payment == GetFloat(fields, "Total payment")
    IN IF payment_date \in DOMAIN pays
       THEN [pays EXCEPT ![payment_date] =
                 PaymentUpdate(@, order_id, total_payment)]
       ELSE pays @@ (payment_date :> PaymentInit(order_id, total_payment))

-----------------------------------------------------------------------------
(* The run: AppUI.convert.                                                 *)

NoMsg == [kind |-> "none", column |-> ""]

Running == <<>>

\* app_ui.error for app_ui.fatal: the message is reported and the call
\* returns; with no orders the run goes on to write_qif.
FatalReturns(msg) ==
    /\ fatal_msg' = msg
    /\ exit_status' = exit_status
    /\ pc' = "open_qif"

\* app_ui.fatal: report the message and sys.exit(1).
Fatal(msg) ==
    /\ fatal_msg' = msg
    /\ exit_status' = <<1>>
    /\ pc' = "exit"

InitRun ==
    /\ pc = "start"
    /\ header \in Headers
    /\ rows = <<>>
    /\ orders = <<>>
    /\ payments = <<>>
    /\ validated = <<>>
    /\ warnings = <<>>
    /\ fatal_msg = NoMsg
    /\ exit_status = Running
    /\ csv_opens = 0
    /\ qif_opens = 0
    /\ qif_header = FALSE
    /\ out = <<>>

Init ==
    /\ InitRun
    /\ arg = <<>>
    /\ res = <<>>

\* read_opensky: open(app_ui.args.csvfile), which may raise IOError.
OpenCsv ==
    /\ pc = "start"
    /\ csv_opens' = csv_opens + 1
    /\ \/ /\ pc' = "reading"
          /\ UNCHANGED <<fatal_msg, exit_status>>
       \/ Fatal([kind |-> "open_csv", column |-> ""])
    /\ UNCHANGED <<header, rows, orders, payments, validated, warnings,
                   qif_opens, qif_header, out, arg, res>>

\* read_opensky: one pass of the loop over the rows of the file.
ReadRow ==
    /\ pc = "reading"
    /\ Len(rows) < MaxRows
    /\ \E order_id \in OrderIdValues, item \in LineItemValues,
          order_date \in OrderDateValues, payment_date \in PaymentDateValues :
          LET fields == DictRow(header,
                            FullRow(order_id, item[1], item[2], order_date,
                                    payment_date))
          IN IF DOMAIN fields # ColumnSet
             THEN /\ rows' = Append(rows, fields)
                  /\ Fatal([kind |-> "missing_column",
                            column |-> MissingColumn(fields)])
                  /\ UNCHANGED <<orders, payments>>
             ELSE /\ rows' = Append(rows, fields)
                  /\ orders' = MergeOrder(orders, fields)
                  /\ payments' = MergePayment(payments, fields)
                  /\ UNCHANGED <<pc, fatal_msg, exit_status>>
    /\ UNCHANGED <<header, validated, warnings, csv_opens, qif_opens,
                   qif_header, out, arg, res>>

\* read_opensky: the file is exhausted; "if len(orders) == 0".
EndOfFile ==
    /\ pc = "reading"
    /\ IF DOMAIN orders = {}
       THEN Fatal([kind |-> "no_data", column |-> ""])
       ELSE /\ pc' = "validate"
            /\ UNCHANGED <<fatal_msg, exit_status>>
    /\ UNCHANGED <<header, rows, orders, payments, validated, warnings,
                   csv_opens, qif_opens, qif_header, out, arg, res>>

SeqSet(s) == {s[i] : i \in 1..Len(s)}

\* validate_orders: one pass of the loop over the orders dict, whose
\* iteration order is the dict's own.
ValidateOrders ==
    /\ pc = "validate"
    /\ \E order_id \in DOMAIN orders \ SeqSet(validated) :
          /\ orders' = [orders EXCEPT ![order_id] = ValidateOrder(@)]
          /\ warnings' = IF ValidateFails(orders[order_id])
                         THEN Append(warnings,
                                     ValidateWarning(orders[order_id], order_id))
                         ELSE warnings
          /\ validated' = Append(validated, order_id)
          /\ pc' = IF SeqSet(validated) \cup {order_id} = DOMAIN orders
                   THEN "open_qif" ELSE "validate"
    /\ UNCHANGED <<header, rows, payments, fatal_msg, exit_status, csv_opens,
                   qif_opens, qif_header, out, arg, res>>

\* write_qif: open(app_ui.args.qiffile, "w"), which may raise IOError, and
\* write_qif_header.
OpenQif ==
    /\ pc = "open_qif"
    /\ qif_opens' = qif_opens + 1
    /\ \/ /\ qif_header' = TRUE
          /\ pc' = "write_orders"
          /\ UNCHANGED <<fatal_msg, exit_status>>
       \/ /\ Fatal([kind |-> "open_qif", column |-> ""])
          /\ UNCHANGED qif_header
    /\ UNCHANGED <<header, rows, orders, payments, validated, warnings,
                   csv_opens, out, arg, res>>

\* write_qif_orders: one pass of the loop over sorted(orders).
WriteQifOrders ==
    /\ pc = "write_orders"
    /\ LET keys == SortedKeys(orders)
           order_id == keys[Len(out) + 1]
       IN /\ out' = Append(out, OrderTransaction(order_id, orders[order_id]))
          /\ pc' = IF Len(out) + 1 = Len(keys)
                   THEN "write_payments" ELSE "write_orders"
    /\ UNCHANGED <<header, rows, orders, payments, validated, warnings,
                   fatal_msg, exit_status, csv_opens, qif_opens, qif_header,
                   arg, res>>

\* write_qif_payments: one pass of the loop over sorted(payments); after the
\* last one the file is closed and main returns 0.
WriteQifPayments ==
    /\ pc = "write_payments"
    /\ LET keys == SortedKeys(payments)
           n == Len(out) - Cardinality(DOMAIN orders) + 1
           payment_date == keys[n]
       IN /\ out' = Append(out, PaymentTransaction(payment_date,
                                                   payments[payment_date]))
          /\ IF n = Len(keys)
             THEN pc' = "done" /\ exit_status' = <<0>>
             ELSE pc' = "write_payments" /\ UNCHANGED exit_status
    /\ UNCHANGED <<header, rows, orders, payments, validated, warnings,
                   fatal_msg, csv_opens, qif_opens, qif_header, arg, res>>

\* write_qif: a write to the open file raises IOError.
WriteError ==
    /\ pc \in {"write_orders", "write_payments"}
    /\ Fatal([kind |-> "open_qif", column |-> ""])
    /\ UNCHANGED <<header, rows, orders, payments, validated, warnings,
                   csv_opens, qif_opens, qif_header, out, arg, res>>

Next ==
    \/ OpenCsv
    \/ ReadRow
    \/ EndOfFile
    \/ ValidateOrders
    \/ OpenQif
    \/ WriteQifOrders
    \/ WriteQifPayments
    \/ WriteError

Spec == Init /\ [][Next]_vars

-----------------------------------------------------------------------------
(* normalize_date on its own: applied to a date, then to its own result.   *)

IdleRun ==
    /\ pc = "idle"
    /\ header = ColumnSet
    /\ rows = <<>>
    /\ orders = <<>>
    /\ payments = <<>>
    /\ validated = <<>>
    /\ warnings = <<>>
    /\ fatal_msg = NoMsg
    /\ exit_status = Running
    /\ csv_opens = 0
    /\ qif_opens = 0
    /\ qif_header = FALSE
    /\ out = <<>>

DateChars == {"0", "1", "/", "-"}

\* Every string of up to MaxDateLen characters, and the dates of the files.
DateInputs ==
    UNION {[1..n -> DateChars] : n \in 0..MaxDateLen}
    \cup OrderDateValues \cup PaymentDateValues
    \cup { <<"7", "/", "4", "/", "2", "0", "1", "5">> }

InitDate ==
    /\ IdleRun
    /\ arg \in DateInputs
    /\ res = <<>>

\* date = normalize_date(date), twice: an IndexError raised by the first
\* call leaves the second one unreached.
ApplyNormalizeDate ==
    /\ Len(res) < 2
    /\ IF res = <<>> THEN TRUE ELSE res[1] # IndexError
    /\ res' = Append(res, NormalizeDate(IF res = <<>> THEN arg
                                        ELSE res[Len(res)]))
    /\ UNCHANGED <<pipeVars, arg>>

NextDate == ApplyNormalizeDate

SpecDate == InitDate /\ [][NextDate]_vars

-----------------------------------------------------------------------------
(* list_to_string on its own.                                              *)

MemoValues ==
    { <<"A">>, <<"B">>, <<"A", "B">>, <<"9">>, <<"1", "0">>,
      <<"1", "0", "0", "1">> }

\* The lists of distinct values, as Order.update and Payment.update keep
\* their skus and order_ids.
ValueLists ==
    UNION { {s \in [1..n -> MemoValues] :
                \A i, j \in 1..n : i # j => s[i] # s[j]} : n \in 1..MaxValues }

InitMemo ==
    /\ IdleRun
    /\ arg \in [item_name : {SKU, OrderID}, values : ValueLists]
    /\ res = <<>>

ApplyListToString ==
    /\ res = <<>>
    /\ res' = <<ListToString(arg.item_name, arg.values)>>
    /\ UNCHANGED <<pipeVars, arg>>

NextMemo == ApplyListToString

SpecMemo == InitMemo /\ [][NextMemo]_vars

-----------------------------------------------------------------------------
(* Properties.                                                             *)

\* The number a numeric cell stands for: its value, 0.0 for a blank cell.
CellValue(c) == IF c.isfloat THEN c.value ELSE 0

\* The sum of column col over the first n rows whose Order ID is order_id.
RECURSIVE OrderColumnSum(_, _, _)
OrderColumnSum(order_id, col, n) ==
    IF n = 0 THEN 0
    ELSE OrderColumnSum(order_id, col, n - 1)
         + (IF rows[n]["Order ID"] = order_id THEN CellValue(rows[n][col])
            ELSE 0)

OrderIdsRead == {rows[i]["Order ID"] : i \in 1..Len(rows)}

\* C1: after any sequence of rows of a file with every column, the orders are
\* those of the order ids read, and each monetary total of an order is the
\* sum of its column over the rows of that order id, the Credits column
\* negated.  (Order.validate may later replace the item price, so that total
\* is compared until the order is validated.)
C1_OrderTotals ==
    header = ColumnSet =>
    /\ DOMAIN orders = OrderIdsRead
    /\ \A k \in DOMAIN orders :
          LET n == Len(rows)
              o == orders[k]
          IN /\ k \in SeqSet(validated)
                \/ o.item_price = OrderColumnSum(k, "Item price", n)
             /\ o.shipping = OrderColumnSum(k, "Shipping price", n)
             /\ o.opensky_credits = -OrderColumnSum(k, "Credits", n)
             /\ o.sales_tax = OrderColumnSum(k, "Sales tax", n)
             /\ o.restocking_fee = OrderColumnSum(k, "Restocking fee", n)
             /\ o.cc_processing =
                    OrderColumnSum(k, "Credit card processing", n)
             /\ o.opensky_commission =
                    OrderColumnSum(k, "OpenSky commission", n)
             /\ o.total_payment = OrderColumnSum(k, "Total payment", n)

\* Two rows with a credit of 2.00 each were merged into one order, whose
\* credits are -4.00 and whose shipping is 4.00.
C1_Witness ==
    /\ pc = "reading"
    /\ Len(rows) = 2
    /\ rows[1]["Order ID"] = rows[2]["Order ID"]
    /\ rows[1]["Credits"] = Num(2000)
    /\ rows[2]["Credits"] = Num(2000)
    /\ orders[rows[1]["Order ID"]].opensky_credits = -4000
    /\ orders[rows[1]["Order ID"]].shipping = 4000

\* The six fields Order.validate subtracts from the total payment.
OtherFields(o) ==
    o.shipping + o.opensky_credits + o.sales_tax + o.restocking_fee
    + o.cc_processing + o.opensky_commission

\* The call of Order.validate for order k is this step.
ValidateCall(k) == k \in DOMAIN orders /\ validated' = Append(validated, k)

\* C2 as amended: Order.validate leaves the order unchanged and warns of
\* nothing when the item price, rounded to 2 decimals, equals the total
\* payment minus the other six fields, rounded to 2 decimals; otherwise it
\* emits exactly one warning, for that order, and overwrites the item price
\* with that rounded difference.  No other field and no other order changes.
C2_Validate ==
    [][\A k \in OrderIdValues :
          ValidateCall(k) =>
              LET o == orders[k]
                  calc == Round2(o.total_payment - OtherFields(o))
              IN /\ \A j \in DOMAIN orders \ {k} : orders'[j] = orders[j]
                 /\ DOMAIN orders' = DOMAIN orders
                 /\ IF Round2(o.item_price) = calc
                    THEN orders'[k] = o /\ warnings' = warnings
                    ELSE /\ orders'[k] = [o EXCEPT !.item_price = calc]
                         /\ Len(warnings') = Len(warnings) + 1
                         /\ SubSeq(warnings', 1, Len(warnings)) = warnings
                         /\ warnings'[Len(warnings')].order_id = k]_vars

\* One order was validated without a warning and another one was corrected
\* with a warning.
C2_Witness ==
    /\ Len(validated) = 2
    /\ Len(warnings) = 1
    /\ \E k \in DOMAIN orders :
          /\ k # warnings[1].order_id
          /\ orders[k].item_price = 10000
    /\ orders[warnings[1].order_id].item_price = 4500
    /\ \E i \in 1..Len(rows) :
          /\ rows[i]["Order ID"] = warnings[1].order_id
          /\ rows[i]["Item price"] = Num(5000)

\* C2 as claimed: the reconciliation total = item price + the other six
\* fields is compared with both sides rounded to 2 decimals, and the item
\* price is overwritten with the total minus the other six fields.
C2_Original ==
    [][\A k \in OrderIdValues :
          ValidateCall(k) =>
              LET o == orders[k]
              IN IF Round2(o.total_payment)
                        = Round2(o.item_price + OtherFields(o))
                 THEN orders'[k] = o /\ warnings' = warnings
                 ELSE /\ orders'[k] =
                             [o EXCEPT !.item_price =
                                           o.total_payment - OtherFields(o)]
                      /\ Len(warnings') = Len(warnings) + 1]_vars

PaymentDatesRead ==
    {NormalizeDate(rows[i]["Payment date"]) : i \in 1..Len(rows)}

\* C3: the transactions written are in ascending key order within the orders
\* and within the payments, every order before every payment; a finished
\* run has written exactly one transaction per order id read and then one
\* per normalized payment date read, whatever the order of the rows.
C3_OutputOrder ==
    /\ \A i, j \in 1..Len(out) :
          i < j =>
              /\ out[i].kind = out[j].kind => StrLess(out[i].key, out[j].key)
              /\ ~(out[i].kind = "payment" /\ out[j].kind = "order")
    /\ pc = "done" =>
          /\ {out[i].key : i \in {n \in 1..Len(out) : out[n].kind = "order"}}
                 = OrderIdsRead
          /\ {out[i].key : i \in {n \in 1..Len(out) : out[n].kind = "payment"}}
                 = PaymentDatesRead
          /\ Len(out) = Cardinality(OrderIdsRead) + Cardinality(PaymentDatesRead)

\* A finished run whose rows came with the larger order id and the later
\* payment date first.
C3_Witness ==
    /\ pc = "done"
    /\ Len(rows) = 2
    /\ StrLess(rows[2]["Order ID"], rows[1]["Order ID"])
    /\ StrLess(NormalizeDate(rows[2]["Payment date"]),
               NormalizeDate(rows[1]["Payment date"]))
    /\ Len(out) = 4
    /\ out[1].key = rows[2]["Order ID"]
    /\ out[2].key = rows[1]["Order ID"]
    /\ out[3].key = NormalizeDate(rows[2]["Payment date"])
    /\ out[4].key = NormalizeDate(rows[1]["Payment date"])

\* read_opensky has opened the file and has returned or exited.
ReaderFinished ==
    pc \notin {"start", "reading"} /\ fatal_msg.kind # "open_csv"

\* C4 as amended: when the header lacks required columns, read_opensky
\* merges nothing; on the first data row it reports a fatal error that
\* names the missing column it reads first, and for a file with no data
\* rows it reports the fatal error "No data found", which names no column.
C4_MissingColumn ==
    header # ColumnSet =>
        /\ orders = <<>> /\ payments = <<>>
        /\ Len(rows) <= 1
        /\ ReaderFinished =>
              IF rows = <<>>
              THEN fatal_msg = [kind |-> "no_data", column |-> ""]
              ELSE /\ fatal_msg.kind = "missing_column"
                   /\ \E i \in 1..Len(RequiredColumns) :
                         /\ fatal_msg.column = RequiredColumns[i]
                         /\ RequiredColumns[i] \notin header
                         /\ \A j \in 1..(i - 1) : RequiredColumns[j] \in header
        /\ (rows # <<>>) => ReaderFinished

\* The file lacks the SKU and Payment date columns and has a data row: the
\* fatal error names SKU.
C4_Witness ==
    /\ ColumnSet \ header = {"SKU", "Payment date"}
    /\ Len(rows) = 1
    /\ pc = "exit"
    /\ fatal_msg = [kind |-> "missing_column", column |-> "SKU"]

\* C4 as claimed: whenever the header lacks one required column, also with
\* no data rows, the fatal error names that column.
C4_Original ==
    \A c \in ColumnSet :
        (ColumnSet \ header = {c} /\ ReaderFinished) =>
            fatal_msg = [kind |-> "missing_column", column |-> c]

ReaderFatals == {"open_csv", "missing_column", "no_data"}

\* C5: a fatal error ends the run with exit status 1 and no further step; a
\* failed open, a missing column and an empty file are each reported as a
\* fatal error of the reader, and after one the validator has not run and
\* the QIF file was never opened or written; no file is opened twice.
C5_FailFast ==
    /\ fatal_msg.kind # "none" =>
          pc = "exit" /\ exit_status = <<1>> /\ ~ENABLED Next
    /\ pc = "exit" => fatal_msg.kind # "none"
    /\ (pc \notin {"start", "reading"} /\ (rows = <<>> \/ header # ColumnSet))
          => fatal_msg.kind \in ReaderFatals
    /\ fatal_msg.kind \in ReaderFatals =>
          /\ validated = <<>> /\ warnings = <<>>
          /\ qif_opens = 0 /\ qif_header = FALSE /\ out = <<>>
    /\ fatal_msg.kind = "open_qif" => qif_opens = 1
    /\ csv_opens <= 1 /\ qif_opens <= 1

\* The reader found no data in a file it could open, and the run ended.
C5_Witness ==
    /\ pc = "exit"
    /\ exit_status = <<1>>
    /\ csv_opens = 1
    /\ fatal_msg.kind = "no_data"
    /\ qif_opens = 0

\* The splits write_qif_orders passes to write_split, in its order: the
\* account and the amount of each.
OrderSplitPlan(o) ==
    << <<Acct.commission, o.opensky_commission>>,
       <<Acct.cc_processing, o.cc_processing>>,
       <<Acct.restocking, o.restocking_fee>>,
       <<Acct.sales_tax, o.sales_tax>>,
       <<Acct.credits, o.opensky_credits>>,
       <<Acct.shipping, o.shipping>>,
       <<Acct.sales, o.item_price>> >>

SplitPairs(splits) == [i \in 1..Len(splits) |-> <<splits[i].S, splits[i].amount>>]

\* C6: no written split has a zero amount; the splits of an order
\* transaction are exactly the nonzero ones among commission, cc-processing,
\* restocking, sales-tax, credits, shipping and item-price, in that order,
\* and a payment transaction has its deposit split exactly when the
\* payment's total is nonzero.
C6_NoZeroSplit ==
    \A n \in 1..Len(out) :
        LET txn == out[n]
        IN /\ \A i \in 1..Len(txn.splits) :
                 /\ txn.splits[i].amount # 0
                 /\ txn.splits[i].text = Fmt2(txn.splits[i].amount)
           /\ txn.kind = "order" =>
                 SplitPairs(txn.splits)
                     = SelectSeq(OrderSplitPlan(orders[txn.key]),
                                 LAMBDA p : p[2] # 0)
           /\ txn.kind = "payment" =>
                 SplitPairs(txn.splits)
                     = IF payments[txn.key].total_payment # 0
                       THEN << <<Acct.deposit, payments[txn.key].total_payment>> >>
                       ELSE <<>>

\* An order whose only nonzero fields are the commission and the item price
\* was written with those two splits, in that order.
C6_Witness ==
    \E n \in 1..Len(out) :
        /\ out[n].kind = "order"
        /\ orders[out[n].key].shipping = 0
        /\ orders[out[n].key].sales_tax = 0
        /\ SplitPairs(out[n].splits)
               = << <<Acct.commission, -500>>, <<Acct.sales, 4500>> >>

\* The rows of a payment date.
PaymentRows(d) ==
    {i \in 1..Len(rows) : NormalizeDate(rows[i]["Payment date"]) = d}

RECURSIVE SumTotals(_)
SumTotals(S) ==
    IF S = {} THEN 0
    ELSE LET i == CHOOSE x \in S : TRUE
         IN CellValue(rows[i]["Total payment"]) + SumTotals(S \ {i})

FirstRowOf(d, order_id) ==
    CHOOSE i \in PaymentRows(d) :
        /\ rows[i]["Order ID"] = order_id
        /\ \A j \in PaymentRows(d) : rows[j]["Order ID"] = order_id => i <= j

\* C7: after any sequence of rows of a file with every column, the payments
\* are those of the normalized payment dates read; a payment's total is the
\* sum of Total payment over the rows of its date, and its order_ids are the
\* order ids of those rows, each once, in order of first appearance.
C7_Payments ==
    header = ColumnSet =>
    /\ DOMAIN payments = PaymentDatesRead
    /\ \A d \in DOMAIN payments :
          LET p == payments[d]
          IN /\ p.total_payment = SumTotals(PaymentRows(d))
             /\ SeqSet(p.order_ids)
                    = {rows[i]["Order ID"] : i \in PaymentRows(d)}
             /\ \A i, j \in 1..Len(p.order_ids) :
                    i < j =>
                        /\ p.order_ids[i] # p.order_ids[j]
                        /\ FirstRowOf(d, p.order_ids[i])
                               < FirstRowOf(d, p.order_ids[j])

\* Two rows of one payment date, written 2015-07-25 and 07/25/2015, with
\* the order ids 9 and then 10.
C7_Witness ==
    /\ header = ColumnSet
    /\ Len(rows) = 2
    /\ rows[1]["Payment date"] # rows[2]["Payment date"]
    /\ rows[1]["Order ID"] = <<"9">>
    /\ DOMAIN payments = {<<"2", "0", "1", "5", "-", "0", "7", "-", "2", "5">>}
    /\ \A d \in DOMAIN payments :
          /\ payments[d].order_ids = << <<"9">>, <<"1", "0">> >>
          /\ payments[d].total_payment = 13200

RECURSIVE SumAmounts(_)
SumAmounts(splits) ==
    IF splits = <<>> THEN 0 ELSE splits[1].amount + SumAmounts(Tail(splits))

WholeCents(o) ==
    /\ o.item_price % 10 = 0 /\ o.shipping % 10 = 0
    /\ o.opensky_credits % 10 = 0 /\ o.sales_tax % 10 = 0
    /\ o.restocking_fee % 10 = 0 /\ o.cc_processing % 10 = 0
    /\ o.opensky_commission % 10 = 0 /\ o.total_payment % 10 = 0

Warned(k) == \E i \in 1..Len(warnings) : warnings[i].order_id = k

\* C10 as amended: a warning does not end the run, and once anything is
\* written every order has been validated exactly once; the T line of an
\* order transaction is the order's total payment, the amounts of its
\* written splits sum to within one cent of it, and to exactly the T amount
\* when the order's amounts are all whole cents, also for an order that did
\* not reconcile, whose item-price split carries the corrected value.
C10_Reconciled ==
    /\ warnings # <<>> => fatal_msg.kind \notin {"open_csv", "missing_column", "no_data"}
    /\ (qif_opens > 0 \/ out # <<>>) =>
          /\ SeqSet(validated) = DOMAIN orders
          /\ Len(validated) = Cardinality(DOMAIN orders)
    /\ \A n \in 1..Len(out) :
          out[n].kind = "order" =>
              LET txn == out[n]
                  o == orders[txn.key]
                  sum == SumAmounts(txn.splits)
              IN /\ txn.T = Fmt2(o.total_payment)
                 /\ Abs(sum - o.total_payment) <= 10
                 /\ WholeCents(o) =>
                        sum = o.total_payment /\ Fmt2(sum) = txn.T
                 /\ Warned(txn.key) =>
                        /\ o.item_price = Round2(o.total_payment - OtherFields(o))
                        /\ o.item_price = 0
                           \/ txn.splits[Len(txn.splits)]
                                  = [S |-> Acct.sales,
                                     E |-> ListToString(SKU, o.skus),
                                     amount |-> o.item_price,
                                     text |-> Fmt2(o.item_price)]

\* A run that warned about an order (item price 5.00, total payment 4.00,
\* commission -0.50) and went on to write it with the item price 4.50.
C10_Witness ==
    /\ pc = "done"
    /\ warnings # <<>>
    /\ \E n \in 1..Len(out) :
          /\ out[n].kind = "order"
          /\ Warned(out[n].key)
          /\ out[n].T = <<"4", ".", "0", "0">>
          /\ Len(out[n].splits) = 2
          /\ out[n].splits[2].text = <<"4", ".", "5", "0">>
          /\ SumAmounts(out[n].splits) = 4000

\* C10 as claimed: the amounts of the written splits of every order
\* transaction sum, to 2 decimals, to the T amount.
C10_Original ==
    \A n \in 1..Len(out) :
        out[n].kind = "order" => Fmt2(SumAmounts(out[n].splits)) = out[n].T

SlashPositions(s) == {i \in 1..Len(s) : s[i] = "/"}

\* C8: normalize_date applied to its own result returns that result; a date
\* with no "/" is returned unchanged; a date of three parts separated by
\* "/", as MM/DD/YYYY is, becomes the third part, "-", the first part, "-",
\* the second part.
C8_NormalizeDate ==
    /\ Len(res) = 2 => res[2] = res[1]
    /\ (Len(res) >= 1 /\ SlashPositions(arg) = {}) => res[1] = arg
    /\ \A i, j \in 1..Len(arg) :
          (Len(res) >= 1 /\ i < j /\ SlashPositions(arg) = {i, j}) =>
              res[1] = SubSeq(arg, j + 1, Len(arg)) \o <<"-">>
                       \o SubSeq(arg, 1, i - 1) \o <<"-">>
                       \o SubSeq(arg, i + 1, j - 1)

\* 07/25/2015 was normalized to 2015-07-25, and that to itself.
C8_Witness ==
    /\ arg = <<"0", "7", "/", "2", "5", "/", "2", "0", "1", "5">>
    /\ res = << <<"2", "0", "1", "5", "-", "0", "7", "-", "2", "5">>,
                <<"2", "0", "1", "5", "-", "0", "7", "-", "2", "5">> >>

\* v is the least (greatest) of the values of list s.
IsSmallest(v, s) == InSeq(v, s) /\ \A i \in 1..Len(s) : ~StrLess(s[i], v)
IsLargest(v, s) == InSeq(v, s) /\ \A i \in 1..Len(s) : ~StrLess(v, s[i])

\* C9: for fewer than 5 values the memo is the item name, an "s" when there
\* is more than one value, "=", and the values in ascending order separated
\* by commas; for 5 or more values it is "N <item>s from X to Y" with N the
\* number of values, X the smallest and Y the largest one; for the item
\* names SKU and Order ID alike.
C9_ListToString ==
    res # <<>> =>
        LET name == arg.item_name
            vals == arg.values
            n == Len(vals)
            text == res[1]
            prefix == name \o (IF n > 1 THEN <<"s">> ELSE <<>>) \o <<"=">>
            parts == Split(SubSeq(text, Len(prefix) + 1, Len(text)), ",")
        IN IF n < 5
           THEN /\ SubSeq(text, 1, Len(prefix)) = prefix
                /\ Len(parts) = n
                /\ SeqSet(parts) = SeqSet(vals)
                /\ \A i \in 1..(n - 1) : StrLess(parts[i], parts[i + 1])
           ELSE \E x, y \in SeqSet(vals) :
                   /\ IsSmallest(x, vals)
                   /\ IsLargest(y, vals)
                   /\ text = NatToStr(n) \o <<" ">> \o name
                             \o <<"s", " ", "f", "r", "o", "m", " ">> \o x
                             \o <<" ", "t", "o", " ">> \o y

\* The five order ids B, 9, 1001, A, 10 gave "5 Order IDs from 10 to B".
C9_Witness ==
    /\ res # <<>>
    /\ arg.item_name = OrderID
    /\ arg.values = << <<"B">>, <<"9">>, <<"1", "0", "0", "1">>, <<"A">>,
                       <<"1", "0">> >>
    /\ res[1] = <<"5", " ", "O", "r", "d", "e", "r", " ", "I", "D", "s", " ",
                  "f", "r", "o", "m", " ", "1", "0", " ", "t", "o", " ", "B">>

\* The sum of total_payment over the values of a dict of Orders or Payments.
RECURSIVE SumTotalPayment(_, _)
SumTotalPayment(d, keys) ==
    IF keys = {} THEN 0
    ELSE LET k == CHOOSE x \in keys : TRUE
         IN d[k].total_payment + SumTotalPayment(d, keys \ {k})

\* The two aggregates agree with each other and with the rows read.
Conserved ==
    /\ SumTotalPayment(orders, DOMAIN orders)
           = SumTotalPayment(payments, DOMAIN payments)
    /\ header = ColumnSet =>
          /\ DOMAIN orders = OrderIdsRead
          /\ DOMAIN payments = PaymentDatesRead
    /\ \A k \in DOMAIN orders :
          \E d \in DOMAIN payments : InSeq(k, payments[d].order_ids)

\* C11: after any prefix of the rows, the total payments of the Orders and
\* of the Payments have the same sum, the order keys are the order ids read
\* and the payment keys the normalized payment dates read, and every order
\* id is in the order_ids of a Payment; no step removes a key of either dict.
C11_Conservation ==
    /\ []Conserved
    /\ [][/\ DOMAIN orders \subseteq DOMAIN orders'
          /\ DOMAIN payments \subseteq DOMAIN payments']_vars

\* Two rows were read for the order ids 9 and 10 with one payment date: two
\* Orders of 9.20 each and one Payment of 18.40 that lists both.
C11_Witness ==
    /\ header = ColumnSet
    /\ Len(rows) = 2
    /\ DOMAIN orders = {<<"9">>, <<"1", "0">>}
    /\ orders[<<"9">>].total_payment = 9200
    /\ orders[<<"1", "0">>].total_payment = 9200
    /\ Cardinality(DOMAIN payments) = 1
    /\ \A d \in DOMAIN payments :
          /\ payments[d].total_payment = 18400
          /\ SeqSet(payments[d].order_ids) = DOMAIN orders

=============================================================================
